---- MODULE Spec2Model ----
(***************************************************************************)
(* Model of the storage widgets of TkClassWiz (backend/tkinter.py, mirrored *)
(* line for line by backend/customtkinter.py) and of the nickname tooltip  *)
(* (object_frame/tooltip.py), and of the backend selection                 *)
(* (backend/__init__.py).                                                  *)
(*                                                                         *)
(* A Python value is a record [k, n, e]:                                   *)
(*   k = "s"  a str, n its characters                                      *)
(*   k = "l"  a list, e its elements                                       *)
(*   k = "o"  an ObjectInfo, n its class name, e its keyword values        *)
(*   k = "d"  the plain mapping convert_to_dict makes of an ObjectInfo     *)
(* A str whose content is base64(pickle(x)) is [k = "s", n = B64, e = <<x>>]*)
(* Indices are 0-based as in the source; TLA+ sequences are 1-based.       *)
(***************************************************************************)
EXTENDS Integers, Sequences, FiniteSets, TLC

VARIABLES
    items,      \* ListBoxObjects._original_items
    rows,       \* the rows the tk.Listbox displays
    sel,        \* the tk.Listbox selection (set of row indices)
    clip,       \* the system clipboard
    op,         \* the operation that produced this state
    ref,        \* a plain reference list driven by the same operations
    heap,       \* the Python list objects: one made for each combo box, and the caller's list "L"
    combo,      \* per ComboBoxObjects: the list _original_items refers to, and the
                \* ttk.Combobox -values, entry text and current index
    tip,        \* the ListboxTooltip: its window, schedule_id and pending callbacks
    GLOBAL,     \* backend.GLOBAL: its backend attribute, and the name given to the
                \* last set_backend call that returned
    entry       \* a HintedEntry (w), and the text given to it since the hint
                \* was last put up (user)

lbvars == <<items, rows, sel, ref>>
cbvars == <<heap, combo>>
vars == <<items, rows, sel, clip, op, ref, heap, combo, tip, GLOBAL, entry>>

----------------------------------------------------------------------------
(* Bounds *)
MaxLen == 3         \* longest list a container holds
MaxIns == 2         \* most values given to one insert call
MaxIdx == 2         \* most indices given to one delete call
DelIdx == 4         \* most indices of the batch-delete check
DelLen == 10        \* longest list of the batch-delete check
MaxTimers == 3      \* most callbacks the tooltip hands to after / after_idle
MaxBackends == 12   \* most backend objects set_backend makes
OutBy == 1          \* how far outside the list an index may point
MaxText == 3        \* longest text of the hinted entry

----------------------------------------------------------------------------
(* Python values *)
Str(chars) == [k |-> "s", n |-> chars, e |-> <<>>]
List(elems) == [k |-> "l", n |-> <<>>, e |-> elems]
ObjectInfo(class, kwargs) == [k |-> "o", n |-> class, e |-> kwargs]
Dict(class, kwargs) == [k |-> "d", n |-> class, e |-> kwargs]

Min(a, b) == IF a < b THEN a ELSE b
Max(a, b) == IF a > b THEN a ELSE b

RECURSIVE SeqMin(_)
SeqMin(s) == IF Len(s) = 1 THEN s[1] ELSE Min(s[1], SeqMin(Tail(s)))

RemoveAt(s, p) == SubSeq(s, 1, p - 1) \o SubSeq(s, p + 1, Len(s))

Range(s) == {s[j] : j \in 1..Len(s)}

\* the indexes used in the order they were given
unsorted(s) == s

\* sorted(list(indexes))
RECURSIVE sorted(_)
sorted(s) ==
    IF s = <<>> THEN <<>>
    ELSE LET m == SeqMin(s)
             p == CHOOSE q \in 1..Len(s) : s[q] = m /\ \A r \in 1..(q - 1) : s[r] # m
         IN  <<m>> \o sorted(RemoveAt(s, p))

\* Python's normalisation of a slice bound i against a list of length n
SliceBound(i, n) == IF i < 0 THEN Max(0, n + i) ELSE Min(i, n)

\* s[first:last]
PySlice(s, first, last) ==
    SubSeq(s, SliceBound(first, Len(s)) + 1, SliceBound(last, Len(s)))

\* s[first:] = new
PySliceAssignFrom(s, first, new) ==
    SubSeq(s, 1, SliceBound(first, Len(s))) \o new

\* del s[first:last]
PySliceDel(s, first, last) ==
    LET lo == SliceBound(first, Len(s))
        hi == SliceBound(last, Len(s))
    IN  IF hi <= lo THEN s ELSE SubSeq(s, 1, lo) \o SubSeq(s, hi + 1, Len(s))

\* whether s[i] exists: a negative i counts from the end
PyInRange(s, i) == -Len(s) <= i /\ i < Len(s)

\* s[i]
PyItem(s, i) == s[(IF i < 0 THEN Len(s) + i ELSE i) + 1]

----------------------------------------------------------------------------
(* Rendering *)
RECURSIVE PyStr(_)
\* str(x): a str is its own text, a list prints bracketed, an ObjectInfo
\* prints its class and arguments
PyStr(v) ==
    LET RECURSIVE Join(_, _)
        Join(es, i) == IF i > Len(es) THEN <<>>
                       ELSE (IF i > 1 THEN <<",">> ELSE <<>>) \o PyStr(es[i]) \o Join(es, i + 1)
    IN  CASE v.k = "s" -> v.n
          [] v.k = "l" -> <<"[">> \o Join(v.e, 1) \o <<"]">>
          [] OTHER     -> v.n \o <<"(">> \o Join(v.e, 1) \o <<")">>

\* The text tkinter hands to Tcl for one element of Listbox.insert: a str as
\* it is, a list as a Tcl list of its elements, anything else through str()
TclText(v) ==
    LET RECURSIVE Join(_, _)
        Join(es, i) == IF i > Len(es) THEN <<>>
                       ELSE (IF i > 1 THEN <<" ">> ELSE <<>>) \o PyStr(es[i]) \o Join(es, i + 1)
    IN  IF v.k = "l" THEN Join(v.e, 1) ELSE PyStr(v)

----------------------------------------------------------------------------
(* tk.Listbox, the widget ListBoxObjects extends: its rows and selection *)

\* super().insert(index, *elements): "end" is the row count, a number is
\* clamped to 0..row count; selected rows at or after it move down
TkListboxInsert(lb, index, texts) ==
    LET n  == Len(lb.rows)
        at == IF index.str THEN n ELSE Max(0, Min(index.i, n))
    IN  [lb EXCEPT
            !.rows = SubSeq(lb.rows, 1, at) \o texts \o SubSeq(lb.rows, at + 1, n),
            !.sel  = {i \in lb.sel : i < at} \cup {i + Len(texts) : i \in {j \in lb.sel : j >= at}}]

\* super().delete(first, last): rows first..last (inclusive) are removed,
\* their selection is dropped and later selected rows move up
TkListboxDelete(lb, first, last) ==
    LET n  == Len(lb.rows)
        lo == Max(first, 0)
        hi == Min(last, n - 1)
    IN  IF first >= n \/ hi < lo THEN lb
        ELSE [lb EXCEPT
                !.rows = SubSeq(lb.rows, 1, lo) \o SubSeq(lb.rows, hi + 2, n),
                !.sel  = {i \in lb.sel : i < lo}
                            \cup {i - (hi - lo + 1) : i \in {j \in lb.sel : j > hi}}]

\* selection_set(index)
TkSelectionSet(lb, index) ==
    IF index >= 0 /\ index < Len(lb.rows) THEN [lb EXCEPT !.sel = lb.sel \cup {index}] ELSE lb

----------------------------------------------------------------------------
(* ListBoxObjects *)
Idx(i) == [str |-> FALSE, i |-> i]
END == [str |-> TRUE, i |-> 0]

count(lb) == Len(lb.items)

get(lb) == PySlice(lb.items, 0, Len(lb.items))

\* curselection(): the selected row indices in ascending order
RECURSIVE Ascending(_)
Ascending(S) ==
    IF S = {} THEN <<>>
    ELSE LET m == CHOOSE y \in S : \A z \in S : y <= z IN <<m>> \o Ascending(S \ {m})

curselection(lb) == Ascending(lb.sel)

\* insert that stores the elements of insert("end", ...) at the front
insert_end_at_front(lb, index, elements) ==
    LET shown == TkListboxInsert(lb, index, [j \in 1..Len(elements) |-> TclText(elements[j])])
        at    == IF index.str THEN 0 ELSE index.i
        old_data == PySlice(lb.items, at, Len(lb.items))
    IN  [shown EXCEPT !.items = PySliceAssignFrom(lb.items, at, elements \o old_data)]

insert(lb, index, elements) ==
    LET shown == TkListboxInsert(lb, index, [j \in 1..Len(elements) |-> TclText(elements[j])])
        at    == IF index.str THEN Len(lb.items) ELSE index.i
        old_data == PySlice(lb.items, at, Len(lb.items))
    IN  [shown EXCEPT !.items = PySliceAssignFrom(lb.items, at, elements \o old_data)]

\* create_ranges without the shift of the indexes not yet processed
RECURSIVE create_ranges_unshifted(_, _, _)
create_ranges_unshifted(indexes, start_i, i) ==
    IF i > Len(indexes) - 1 THEN << <<start_i, indexes[Len(indexes)]>> >>
    ELSE IF indexes[i + 1] > indexes[i] + 1
         THEN << <<start_i, indexes[i]>> >> \o create_ranges_unshifted(indexes, indexes[i + 1], i + 1)
         ELSE create_ranges_unshifted(indexes, start_i, i + 1)

\* create_ranges(): the runs of the sorted index list, each later index
\* shifted left by the length of every run already yielded
RECURSIVE create_ranges(_, _, _)
create_ranges(indexes, start_i, i) ==
    IF i > Len(indexes) - 1 THEN << <<start_i, indexes[Len(indexes)]>> >>
    ELSE IF indexes[i + 1] > indexes[i] + 1
         THEN LET to_yield == <<start_i, indexes[i]>>
                  shifted  == [j \in 1..Len(indexes) |->
                                  IF j >= i + 1 THEN indexes[j] - (to_yield[2] - to_yield[1] + 1)
                                  ELSE indexes[j]]
              IN  <<to_yield>> \o create_ranges(shifted, shifted[i + 1], i + 1)
         ELSE create_ranges(indexes, start_i, i + 1)

RECURSIVE delete_ranges(_, _)
delete_ranges(lb, ranges) ==
    IF ranges = <<>> THEN lb
    ELSE LET range_ == Head(ranges)
             shown  == TkListboxDelete(lb, range_[1], range_[2])
         IN  delete_ranges([shown EXCEPT !.items = PySliceDel(lb.items, range_[1], range_[2] + 1)],
                           Tail(ranges))

delete(lb, indexes) ==
    LET sorted_indexes == sorted(indexes)
    IN  delete_ranges(lb, create_ranges(sorted_indexes, sorted_indexes[1], 1))

\* range(first, len(self._original_items))
PyRange(first, stop) == [j \in 1..Max(0, stop - first) |-> first + j - 1]

\* delete(first, "end"): [lb, raised]; raised is the IndexError of indexes[0]
\* in create_ranges when the range is empty
delete_end(lb, first) ==
    LET indexes == PyRange(first, Len(lb.items))
    IN  IF indexes = <<>> THEN [lb |-> lb, raised |-> TRUE]
        ELSE [lb |-> delete(lb, indexes), raised |-> FALSE]

clear(lb) ==
    [TkListboxDelete(lb, 0, Len(lb.rows) - 1) EXCEPT !.items = <<>>]

\* move whose backward boundary test is off by one
move_boundary_off(lb, index, direction) ==
    IF (direction = -1 /\ index = 1) \/ (direction = 1 /\ index = Len(lb.items) - 1)
    THEN lb
    ELSE LET value == PyItem(lb.items, index)
             gone  == delete(lb, <<index>>)
             back  == insert(gone, Idx(index + direction), <<value>>)
         IN  TkSelectionSet(back, index + direction)

\* move that does not select the moved entry again
move_unselected(lb, index, direction) ==
    IF (direction = -1 /\ index = 0) \/ (direction = 1 /\ index = Len(lb.items) - 1)
    THEN lb
    ELSE LET value == PyItem(lb.items, index)
             gone  == delete(lb, <<index>>)
         IN  insert(gone, Idx(index + direction), <<value>>)

\* whether move raises: _original_items[index] is read once the boundary
\* test has let the call through
move_raises(lb, index, direction) ==
    /\ ~((direction = -1 /\ index = 0) \/ (direction = 1 /\ index = Len(lb.items) - 1))
    /\ ~PyInRange(lb.items, index)

move(lb, index, direction) ==
    IF (direction = -1 /\ index = 0) \/ (direction = 1 /\ index = Len(lb.items) - 1)
    THEN lb
    ELSE LET value == PyItem(lb.items, index)
             gone  == delete(lb, <<index>>)
             back  == insert(gone, Idx(index + direction), <<value>>)
         IN  TkSelectionSet(back, index + direction)

----------------------------------------------------------------------------
(* Clipboard codec *)
B64 == <<"b64">>
NoClip == [k |-> "none", n |-> <<>>, e |-> <<>>]

\* classes convert_from_dict can resolve
Registry == {<<"K">>}

\* convert_to_dict: an ObjectInfo becomes a plain mapping of its class and
\* converted arguments, a list is converted element by element, a scalar
\* passes through
RECURSIVE convert_to_dict(_)
convert_to_dict(v) ==
    CASE v.k = "o" -> Dict(v.n, [j \in 1..Len(v.e) |-> convert_to_dict(v.e[j])])
      [] v.k = "l" -> List([j \in 1..Len(v.e) |-> convert_to_dict(v.e[j])])
      [] OTHER     -> v

\* whether every class reference in d resolves
RECURSIVE Resolves(_)
Resolves(d) ==
    /\ (d.k = "d" => d.n \in Registry)
    /\ (d.k \in {"d", "l"} => \A j \in 1..Len(d.e) : Resolves(d.e[j]))

\* convert_from_dict, where every class resolves
RECURSIVE convert_from_dict(_)
convert_from_dict(d) ==
    CASE d.k = "d" -> ObjectInfo(d.n, [j \in 1..Len(d.e) |-> convert_from_dict(d.e[j])])
      [] d.k = "l" -> List([j \in 1..Len(d.e) |-> convert_from_dict(d.e[j])])
      [] OTHER     -> d

\* base64.b64encode(pickle.dumps(x)).decode('ascii')
Encode(x) == [k |-> "s", n |-> B64, e |-> <<x>>]

\* pickle.loads(base64.b64decode(text)) succeeds only on such a text
Decodes(text) == text.k = "s" /\ text.n = B64 /\ Len(text.e) = 1

\* a paste that builds the object although a class does not resolve
PastedValue_unresolved(text) ==
    IF Decodes(text) THEN convert_from_dict(text.e[1]) ELSE text

\* the value paste_from_clipboard goes on with: the decoded object, or the
\* clipboard text itself when any decoding step raised (suppress(Exception))
PastedValue(text) ==
    IF Decodes(text) /\ Resolves(text.e[1]) THEN convert_from_dict(text.e[1]) ELSE text

\* save_to_clipboard on a non-empty selection: the rows from the first to
\* the last selected one, or that one object when a single row is selected
save_to_clipboard(lb) ==
    LET selection == curselection(lb)
        object_   == PySlice(get(lb), selection[1], selection[Len(selection)] + 1)
    IN  Encode(convert_to_dict(IF Len(selection) > 1 THEN List(object_) ELSE object_[1]))

paste_from_clipboard(lb, text) ==
    LET value == PastedValue(text)
    IN  IF value.k = "l" THEN insert(lb, END, value.e) ELSE insert(lb, END, <<value>>)

----------------------------------------------------------------------------
(* ttk.Combobox, the widget ComboBoxObjects extends *)
StrCap == 200

\* current(): the remembered index while the entry text still is the value
\* at it, else the first value equal to the text, else -1
TkComboboxCurrent(w) ==
    IF w.idx >= 0 /\ w.idx < Len(w.values) /\ w.values[w.idx + 1] = w.text THEN w.idx
    ELSE IF \E j \in 1..Len(w.values) : w.values[j] = w.text
         THEN (CHOOSE j \in 1..Len(w.values) :
                  w.values[j] = w.text /\ \A q \in 1..(j - 1) : w.values[q] # w.text) - 1
         ELSE -1

\* whether current(newindex) is accepted ("Index ... out of range" otherwise)
TkComboboxAccepts(w, newindex) == newindex >= 0 /\ newindex < Len(w.values)

\* current(newindex): the entry shows the value at newindex
TkComboboxSetCurrent(w, newindex) ==
    [w EXCEPT !.idx = newindex, !.text = w.values[newindex + 1]]

\* ttk.Entry.delete(first): the character at first is removed from the text
TkEntryDelete(w, first) ==
    IF first >= 0 /\ first < Len(w.text) THEN [w EXCEPT !.text = RemoveAt(w.text, first + 1)] ELSE w

----------------------------------------------------------------------------
(* ComboBoxObjects; h is the heap of list objects, w the widget *)
update_internal(h, w) ==
    [w EXCEPT !.values = [j \in 1..Len(h[w.ref]) |->
                             SubSeq(PyStr(h[w.ref][j]), 1, Min(Len(PyStr(h[w.ref][j])), StrCap))]]

combo_count(h, w) == Len(h[w.ref])

get_values(h, w) == h[w.ref]

\* get(): [raised, value]; raised is the IndexError of _original_items[index]
combo_get(h, w) ==
    LET index == TkComboboxCurrent(w)
    IN  IF index >= 0
        THEN IF index < Len(h[w.ref]) THEN [raised |-> FALSE, value |-> h[w.ref][index + 1]]
             ELSE [raised |-> TRUE, value |-> NoClip]
        ELSE [raised |-> FALSE, value |-> Str(w.text)]

\* set_values(values): the widget keeps the list object it is given
set_values(h, w, list) ==
    [h |-> h, w |-> update_internal(h, [w EXCEPT !.ref = list])]

combo_insert(h, w, index, element) ==
    LET at == IF index.str THEN Len(h[w.ref]) ELSE index.i
        h2 == [h EXCEPT ![w.ref] = SubSeq(@, 1, at) \o <<element>> \o SubSeq(@, at + 1, Len(@))]
    IN  [h |-> h2, w |-> update_internal(h2, w)]

combo_delete(h, w, index) ==
    [h |-> [h EXCEPT ![w.ref] = RemoveAt(@, index + 1)], w |-> TkEntryDelete(w, index)]

\* the position list.index(value) returns
ListIndex(s, value) ==
    (CHOOSE j \in 1..Len(s) : s[j] = value /\ \A q \in 1..(j - 1) : s[q] # value) - 1

\* paste_from_clipboard: [h, w, raised]; raised is the TclError of current(i)
combo_paste_from_clipboard(h, w, text) ==
    LET value == PastedValue(text)
        added == IF value \in Range(h[w.ref]) THEN [h |-> h, w |-> w]
                 ELSE combo_insert(h, w, END, value)
        at    == ListIndex(added.h[w.ref], value)
    IN  IF TkComboboxAccepts(added.w, at)
        THEN [h |-> added.h, w |-> TkComboboxSetCurrent(added.w, at), raised |-> FALSE]
        ELSE [h |-> added.h, w |-> added.w, raised |-> TRUE]

----------------------------------------------------------------------------
(* ComboEditFrame; its combo box is w, name is the widget's name *)

\* no call of edit_method
NoCall == [called |-> FALSE, class_ |-> <<>>, combo |-> "", old_data |-> NoClip]

\* set_values: [h, w, raised]; raised is the TclError of combo.current(0)
frame_set_values(h, w, list) ==
    LET set == set_values(h, w, list)
    IN  IF TkComboboxAccepts(set.w, 0)
        THEN [h |-> set.h, w |-> TkComboboxSetCurrent(set.w, 0), raised |-> FALSE]
        ELSE [h |-> set.h, w |-> set.w, raised |-> TRUE]

\* _edit that goes on to edit_method whatever current() answers
edit_without_guard(h, w, name) ==
    LET got == combo_get(h, w)
    IN  IF got.raised \/ got.value.k # "o"
        THEN [dialog |-> FALSE, raised |-> TRUE, call |-> NoCall]
        ELSE [dialog |-> FALSE, raised |-> FALSE,
              call |-> [called |-> TRUE, class_ |-> got.value.n, combo |-> name,
                        old_data |-> got.value]]

\* _edit: [dialog, raised, call]; raised is the IndexError of get() or the
\* AttributeError of object_.class_ on a value that is no ObjectInfo
edit(h, w, name) ==
    LET selection == TkComboboxCurrent(w)
        got == combo_get(h, w)
    IN  IF selection >= 0
        THEN IF got.raised \/ got.value.k # "o"
             THEN [dialog |-> FALSE, raised |-> TRUE, call |-> NoCall]
             ELSE [dialog |-> FALSE, raised |-> FALSE,
                   call |-> [called |-> TRUE, class_ |-> got.value.n, combo |-> name,
                             old_data |-> got.value]]
        ELSE [dialog |-> TRUE, raised |-> FALSE, call |-> NoCall]

----------------------------------------------------------------------------
(* BaseToolTip / ListboxTooltip *)
DefaultTimeout == 500

\* __init__: nothing scheduled, the window withdrawn
BaseToolTip(timeout_ms) ==
    [timeout_ms |-> timeout_ms,
     visible |-> FALSE,         \* the toplevel is deiconified
     schedule_id |-> 0,         \* 0 is None
     timers |-> {},             \* ids of the pending after() callbacks
     idle |-> 0,                \* pending after_idle() callbacks
     next_id |-> 1,             \* the id the next after() call returns
     motion |-> FALSE,          \* <Motion> is bound to _update_pos
     left |-> FALSE]            \* a <Leave> was handled and no _schedule since

hide_tooltip(t) == [t EXCEPT !.visible = FALSE]

\* _schedule with a value to show
schedule(t) ==
    IF t.timeout_ms # 0
    THEN [t EXCEPT !.schedule_id = t.next_id,
                   !.timers = t.timers \cup {t.next_id},
                   !.next_id = t.next_id + 1]
    ELSE [t EXCEPT !.idle = t.idle + 1]

cancel_schedule(t) ==
    hide_tooltip(IF t.schedule_id # 0
                 THEN [t EXCEPT !.timers = t.timers \ {t.schedule_id}, !.schedule_id = 0]
                 ELSE t)

show_tooltip(t) == [t EXCEPT !.visible = TRUE, !.motion = TRUE]

\* ListboxTooltip._update_pos: the tooltip goes away once the pointer is
\* more than 10 pixels from where it was shown
update_pos(t, far) == IF far THEN cancel_schedule(t) ELSE t

----------------------------------------------------------------------------
(* Backend selection (backend/__init__.py) *)
BACKEND_MAP == [customtkinter |-> "BackendCustomTkinter", tkinter |-> "BackendTkinter"]

\* class GLOBAL: backend = BackendTkinter(); objects are told apart by id
InitGLOBAL == [backend |-> [class_ |-> "BackendTkinter", id |-> 0], last |-> ""]

\* set_backend that falls back to BackendTkinter on a name it does not know
set_backend_default(g, backend) ==
    [g |-> [backend |-> [class_ |-> IF backend \in DOMAIN BACKEND_MAP THEN BACKEND_MAP[backend]
                                    ELSE "BackendTkinter",
                         id |-> g.backend.id + 1],
            last |-> backend],
     raised |-> FALSE]

\* set_backend: [g, raised]; raised is the KeyError of BACKEND_MAP[backend],
\* which comes before the assignment
set_backend(g, backend) ==
    IF backend \in DOMAIN BACKEND_MAP
    THEN [g |-> [backend |-> [class_ |-> BACKEND_MAP[backend], id |-> g.backend.id + 1],
                 last |-> backend],
          raised |-> FALSE]
    ELSE [g |-> g, raised |-> TRUE]

get_backend(g) == g.backend

----------------------------------------------------------------------------
(* ttk.Entry, the widget HintedEntry extends: w has the text and the options
   foreground and state *)

\* insert and delete are ignored while the state is readonly or disabled;
\* any other value of the option leaves the entry editable
EntryEditable(w) == w.state \notin {"readonly", "disabled"}

\* super().insert(index, string); the index is clamped to the text
TtkEntryInsert(w, index, string) ==
    LET at == IF index.str THEN Len(w.text) ELSE Max(0, Min(index.i, Len(w.text)))
    IN  IF EntryEditable(w)
        THEN [w EXCEPT !.text = SubSeq(w.text, 1, at) \o string \o SubSeq(w.text, at + 1, Len(w.text))]
        ELSE w

\* delete('0', tk.END)
TtkEntryClear(w) == IF EntryEditable(w) THEN [w EXCEPT !.text = <<>>] ELSE w

(* HintedEntry *)
hinted_get(w) == IF w.foreground = "gray" THEN <<>> ELSE w.text

hinted_insert(w, index, string) ==
    LET state    == w.state
        enabled  == [w EXCEPT !.state = "enabled"]
        emptied  == IF enabled.foreground = "gray" THEN TtkEntryClear(enabled) ELSE enabled
        inserted == TtkEntryInsert(emptied, index, string)
    IN  [inserted EXCEPT !.foreground = "black", !.state = state]

set_hint(w) == [hinted_insert(w, Idx(0), w.hint) EXCEPT !.foreground = "gray"]

\* __init__(hint, state=...)
HintedEntry(hint, state) ==
    set_hint([text |-> <<>>, foreground |-> "", state |-> state, hint |-> hint])

focus_in(w) ==
    IF w.foreground = "gray" THEN TtkEntryClear([w EXCEPT !.foreground = "black"]) ELSE w

focus_out(w) == IF w.text = <<>> THEN set_hint(w) ELSE w

InitEntryWith(hint, state) == [w |-> HintedEntry(hint, state), user |-> <<>>]

----------------------------------------------------------------------------
(* Inputs *)
a == Str(<<"a">>)
b == Str(<<"b">>)
c == Str(<<"c">>)
x == Str(<<"x">>)
y == Str(<<"y">>)
ab == List(<<a, b>>)
Kobj == ObjectInfo(<<"K">>, <<ObjectInfo(<<"K">>, <<a, ab>>)>>)

ListValues == {b, x, y, ab}
ClipValues == {a, ab, Kobj}

\* texts another program can leave on the clipboard
ForeignTexts == {Str(<<"h", "i">>), a, Encode(Dict(<<"U">>, <<a>>))}

a_b == Str(<<"a", "b">>)
ComboValues == {a, b, a_b}
Combos == {"c1", "c2"}
ListIds == Combos \cup {"L"}
CallerList == <<a, a_b>>

PasteTexts == {a, Encode(Dict(<<"U">>, <<a>>))}

SeqsUpTo(S, n) == UNION {[1..m -> S] : m \in 0..n}

----------------------------------------------------------------------------
(* State *)
LB == [items |-> items, rows |-> rows, sel |-> sel]

Op(name) == [name |-> name, index |-> END, indexes |-> <<>>, dir |-> 0, raised |-> FALSE,
             dialog |-> FALSE, w |-> "listbox", call |-> NoCall, arg |-> ""]

SetLB(lb) ==
    /\ items' = lb.items
    /\ rows' = lb.rows
    /\ sel' = lb.sel

\* the same operations on a plain list
RefInsert(r, at, vals) == SubSeq(r, 1, at) \o vals \o SubSeq(r, at + 1, Len(r))

RECURSIVE RefDelete(_, _)
RefDelete(r, S) ==
    IF S = {} THEN r
    ELSE LET m == CHOOSE z \in S : \A w \in S : z >= w
         IN  RefDelete(RemoveAt(r, m + 1), S \ {m})

RefSwap(r, i, j) == [r EXCEPT ![i + 1] = r[j + 1], ![j + 1] = r[i + 1]]


InitWidgets ==
    /\ items = <<>>
    /\ rows = <<>>
    /\ sel = {}
    /\ clip = NoClip
    /\ op = Op("init")
    /\ ref = <<>>
    /\ heap = [l \in ListIds |-> IF l = "L" THEN CallerList ELSE <<>>]
    /\ combo = [w \in Combos |-> [ref |-> w, values |-> <<>>, text |-> <<>>, idx |-> -1]]
    /\ GLOBAL = InitGLOBAL

Init == InitWidgets /\ tip = BaseToolTip(DefaultTimeout) /\ entry = InitEntryWith(<<"h">>, "normal")

\* the tooltip is made with the default delay or with none
InitTip ==
    /\ InitWidgets
    /\ \E timeout_ms \in {0, DefaultTimeout} : tip = BaseToolTip(timeout_ms)
    /\ entry = InitEntryWith(<<"h">>, "normal")

----------------------------------------------------------------------------
(* List box operations *)
Insert(Vals) ==
    \E elements \in SeqsUpTo(Vals, MaxIns) :
    \E index \in {Idx(i) : i \in 0..count(LB)} \cup {END} :
        /\ count(LB) + Len(elements) <= MaxLen
        /\ SetLB(insert(LB, index, elements))
        /\ op' = [Op("insert") EXCEPT !.index = index]
        /\ ref' = RefInsert(ref, IF index.str THEN Len(ref) ELSE index.i, elements)
        /\ UNCHANGED <<clip, cbvars, tip, entry, GLOBAL>>

Delete(most) ==
    \E indexes \in SeqsUpTo(0..(count(LB) - 1), most) :
        /\ indexes # <<>>
        /\ SetLB(delete(LB, indexes))
        /\ op' = [Op("delete") EXCEPT !.indexes = indexes]
        /\ ref' = RefDelete(ref, Range(indexes))
        /\ UNCHANGED <<clip, cbvars, tip, entry, GLOBAL>>

Clear ==
    /\ SetLB(clear(LB))
    /\ op' = Op("clear")
    /\ ref' = <<>>
    /\ UNCHANGED <<clip, cbvars, tip, entry, GLOBAL>>

Move ==
    \E index \in 0..(count(LB) - 1) : \E direction \in {-1, 1} :
        /\ SetLB(move(LB, index, direction))
        /\ op' = [Op("move") EXCEPT !.index = Idx(index), !.dir = direction]
        /\ ref' = IF index + direction \in 0..(Len(ref) - 1)
                  THEN RefSwap(ref, index, index + direction) ELSE ref
        /\ UNCHANGED <<clip, cbvars, tip, entry, GLOBAL>>

\* the user changes the selection (selectmode EXTENDED)
Select ==
    \E S \in SUBSET (0..(Len(rows) - 1)) :
        /\ count(LB) <= MaxLen
        /\ S # sel
        /\ sel' = S
        /\ op' = Op("select")
        /\ UNCHANGED <<items, rows, clip, ref, cbvars, tip, entry, GLOBAL>>

NextListBox == Insert(ListValues) \/ Delete(MaxIdx) \/ Clear \/ Move \/ Select

SpecListBox == Init /\ [][NextListBox]_vars

----------------------------------------------------------------------------
(* Clipboard operations of the list box *)
SelectedValues(lb) == [j \in 1..Len(curselection(lb)) |-> lb.items[curselection(lb)[j] + 1]]

\* Ctrl-C: the selection goes to the clipboard, or the "Empty list!" dialog shows
SaveToClipboard ==
    /\ count(LB) <= MaxLen
    /\ IF sel # {}
       THEN clip' = save_to_clipboard(LB) /\ op' = Op("save")
       ELSE clip' = clip /\ op' = [Op("save") EXCEPT !.dialog = TRUE]
    /\ UNCHANGED <<items, rows, sel, ref, cbvars, tip, entry, GLOBAL>>

\* Ctrl-V: clipboard_get() raises on an empty clipboard, before anything changes
PasteFromClipboard ==
    /\ IF clip = NoClip
       THEN op' = [Op("paste") EXCEPT !.raised = TRUE] /\ UNCHANGED <<items, rows, sel, ref>>
       ELSE LET pasted == paste_from_clipboard(LB, clip)
            IN  /\ count(LB) <= MaxLen
                /\ SetLB(pasted)
                /\ ref' = pasted.items
                /\ op' = Op("paste")
    /\ UNCHANGED <<clip, cbvars, tip, entry, GLOBAL>>

\* another program puts text on the clipboard
ForeignCopy(Texts) ==
    \E text \in Texts :
        /\ clip # text
        /\ clip' = text
        /\ op' = [Op("foreign") EXCEPT !.w = "other"]
        /\ UNCHANGED <<lbvars, cbvars, tip, entry, GLOBAL>>

----------------------------------------------------------------------------
(* Combo box operations *)
SetCombo(w, r) ==
    /\ heap' = r.h
    /\ combo' = [combo EXCEPT ![w] = r.w]

\* set_values with a list nobody else holds, or with the caller's list "L"
ComboSetValues(W, Lists, Shared) ==
    \E w \in W :
        /\ \/ \E list \in Lists :
                 SetCombo(w, set_values([heap EXCEPT ![w] = list], combo[w], w))
           \/ \E l \in Shared : SetCombo(w, set_values(heap, combo[w], l))
        /\ op' = [Op("set_values") EXCEPT !.w = w]
        /\ UNCHANGED <<tip, entry, GLOBAL, items, rows, sel, ref, clip>>

\* the caller appends to the list it passed to set_values and still holds
CallerAppend(Vals) ==
    \E element \in Vals :
        /\ Len(heap["L"]) < MaxLen
        /\ heap' = [heap EXCEPT !["L"] = Append(@, element)]
        /\ op' = [Op("append") EXCEPT !.w = "caller"]
        /\ UNCHANGED <<tip, entry, GLOBAL, items, rows, sel, ref, clip, combo>>

ComboInsert(W, Vals) ==
    \E w \in W : \E element \in Vals :
    \E index \in {Idx(i) : i \in 0..combo_count(heap, combo[w])} \cup {END} :
        /\ combo_count(heap, combo[w]) < MaxLen
        /\ SetCombo(w, combo_insert(heap, combo[w], index, element))
        /\ op' = [Op("insert") EXCEPT !.w = w]
        /\ UNCHANGED <<tip, entry, GLOBAL, items, rows, sel, ref, clip>>

ComboDelete(W) ==
    \E w \in W : \E index \in 0..(combo_count(heap, combo[w]) - 1) :
        /\ SetCombo(w, combo_delete(heap, combo[w], index))
        /\ op' = [Op("delete") EXCEPT !.w = w]
        /\ UNCHANGED <<tip, entry, GLOBAL, items, rows, sel, ref, clip>>

\* the user picks an entry of the drop-down list
ComboSelect(W) ==
    \E w \in W : \E i \in 0..(Len(combo[w].values) - 1) :
        /\ combo' = [combo EXCEPT ![w] = TkComboboxSetCurrent(@, i)]
        /\ op' = [Op("select") EXCEPT !.w = w]
        /\ UNCHANGED <<tip, entry, GLOBAL, items, rows, sel, ref, clip, heap>>

\* get(): current() settles the remembered index; the read may raise
ComboGet(W) ==
    \E w \in W :
        /\ combo' = [combo EXCEPT ![w].idx = TkComboboxCurrent(combo[w])]
        /\ op' = [Op("get") EXCEPT !.w = w, !.raised = combo_get(heap, combo[w]).raised]
        /\ UNCHANGED <<tip, entry, GLOBAL, items, rows, sel, ref, clip, heap>>

ComboSaveToClipboard(W) ==
    \E w \in W :
        LET got == combo_get(heap, combo[w])
        IN  /\ combo' = [combo EXCEPT ![w].idx = TkComboboxCurrent(combo[w])]
            /\ clip' = IF got.raised THEN clip ELSE Encode(convert_to_dict(got.value))
            /\ op' = [Op("save") EXCEPT !.w = w, !.raised = got.raised]
            /\ UNCHANGED <<items, rows, sel, ref, heap, tip, entry, GLOBAL>>

ComboPaste(W) ==
    \E w \in W :
        /\ IF clip = NoClip
           THEN op' = [Op("paste") EXCEPT !.w = w, !.raised = TRUE] /\ UNCHANGED cbvars
           ELSE LET pasted == combo_paste_from_clipboard(heap, combo[w], clip)
                IN  /\ Len(pasted.h[combo[w].ref]) <= MaxLen
                    /\ SetCombo(w, pasted)
                    /\ op' = [Op("paste") EXCEPT !.w = w, !.raised = pasted.raised]
        /\ UNCHANGED <<tip, entry, GLOBAL, items, rows, sel, ref, clip>>

NextCombo ==
    \/ ComboSetValues({"c1"}, SeqsUpTo(ComboValues, MaxLen), {})
    \/ ComboInsert({"c1"}, ComboValues)
    \/ ComboDelete({"c1"})
    \/ ComboSelect({"c1"})
    \/ ComboGet({"c1"})
    \/ ComboPaste({"c1"})
    \/ ForeignCopy(ForeignTexts)

SpecCombo == Init /\ [][NextCombo]_vars

NextShare ==
    \/ ComboSetValues(Combos, {}, {"L"})
    \/ ComboInsert({"c1"}, {b})
    \/ ComboDelete({"c1"})
    \/ ComboPaste({"c1"})
    \/ ForeignCopy({Str(<<"h", "i">>)})

SpecShare == Init /\ [][NextShare]_vars

NextClip ==
    \/ Insert(ClipValues)
    \/ Select
    \/ SaveToClipboard
    \/ PasteFromClipboard
    \/ ForeignCopy(ForeignTexts)

SpecClip == Init /\ [][NextClip]_vars

NextPaste ==
    \/ ForeignCopy(PasteTexts)
    \/ PasteFromClipboard
    \/ ComboSetValues({"c1"}, {<<b>>}, {"L"})
    \/ CallerAppend(PasteTexts)
    \/ ComboPaste({"c1"})

SpecPaste == Init /\ [][NextPaste]_vars

----------------------------------------------------------------------------
(* Tooltip events *)
TipFrame == UNCHANGED <<items, rows, sel, clip, ref, heap, combo, GLOBAL, entry>>

\* <<ListboxSelect>>: _get_value() has something to show or not
Schedule ==
    \E has_value \in BOOLEAN :
        /\ tip.next_id <= MaxTimers
        /\ tip.idle < MaxTimers
        /\ tip' = [(IF has_value THEN schedule(tip) ELSE tip) EXCEPT !.left = FALSE]
        /\ op' = [Op("_schedule") EXCEPT !.w = "tooltip"]
        /\ TipFrame

\* <Leave>
CancelSchedule ==
    /\ tip' = [cancel_schedule(tip) EXCEPT !.left = TRUE]
    /\ op' = [Op("_cancel_schedule") EXCEPT !.w = "tooltip"]
    /\ TipFrame

\* a callback given to after() comes due
TimerFires ==
    \E id \in tip.timers :
        /\ tip' = show_tooltip([tip EXCEPT !.timers = tip.timers \ {id}])
        /\ op' = [Op("_show_tooltip") EXCEPT !.w = "tooltip"]
        /\ TipFrame

\* the event loop runs a callback given to after_idle()
IdleFires ==
    /\ tip.idle > 0
    /\ tip' = show_tooltip([tip EXCEPT !.idle = tip.idle - 1])
    /\ op' = [Op("_show_tooltip") EXCEPT !.w = "tooltip"]
    /\ TipFrame

\* <Motion>, bound by the first _show_tooltip
Motion ==
    \E far \in BOOLEAN :
        /\ tip.motion
        /\ tip' = update_pos(tip, far)
        /\ op' = [Op("_update_pos") EXCEPT !.w = "tooltip"]
        /\ TipFrame

NextTip == Schedule \/ CancelSchedule \/ TimerFires \/ IdleFires \/ Motion

SpecTip == InitTip /\ [][NextTip]_vars

\* a list box already holding the first n of ten distinct entries
Digits == <<"0", "1", "2", "3", "4", "5", "6", "7", "8", "9", "A", "B">>
Ten == [j \in 1..DelLen |-> Str(<<Digits[j]>>)]

InitDelete ==
    \E n \in 1..DelLen :
        /\ items = SubSeq(Ten, 1, n)
        /\ rows = [j \in 1..n |-> TclText(Ten[j])]
        /\ sel = {}
        /\ clip = NoClip
        /\ op = Op("init")
        /\ ref = SubSeq(Ten, 1, n)
        /\ tip = BaseToolTip(DefaultTimeout)
        /\ heap = [l \in ListIds |-> IF l = "L" THEN CallerList ELSE <<>>]
        /\ combo = [w \in Combos |-> [ref |-> w, values |-> <<>>, text |-> <<>>, idx |-> -1]]
        /\ GLOBAL = InitGLOBAL
        /\ entry = InitEntryWith(<<"h">>, "normal")

DeleteOnce == op.name = "init" /\ Delete(DelIdx)

SpecDelete == InitDelete /\ [][DeleteOnce]_vars

----------------------------------------------------------------------------
(* List box operations called with any numeric index *)
IndexValues == {b, x}
AnyIndex == (0 - OutBy)..(MaxLen + OutBy)

\* insert(index, element): neither tk.Listbox.insert nor the slice assignment
\* raises on a number
InsertAt ==
    \E element \in IndexValues : \E index \in AnyIndex :
        /\ count(LB) < MaxLen
        /\ SetLB(insert(LB, Idx(index), <<element>>))
        /\ op' = [Op("insert") EXCEPT !.index = Idx(index)]
        /\ UNCHANGED <<ref, clip, cbvars, tip, entry, GLOBAL>>

\* delete(index): neither tk.Listbox.delete nor the slice deletion raises
DeleteAt ==
    \E index \in AnyIndex :
        /\ count(LB) <= MaxLen
        /\ SetLB(delete(LB, <<index>>))
        /\ op' = [Op("delete") EXCEPT !.indexes = <<index>>]
        /\ UNCHANGED <<ref, clip, cbvars, tip, entry, GLOBAL>>

\* move(index, direction): only reading _original_items[index] can raise
MoveAt ==
    \E index \in AnyIndex : \E direction \in {-1, 1} :
        /\ count(LB) <= MaxLen
        /\ IF move_raises(LB, index, direction)
           THEN /\ op' = [Op("move") EXCEPT !.index = Idx(index), !.dir = direction, !.raised = TRUE]
                /\ UNCHANGED <<items, rows, sel>>
           ELSE /\ SetLB(move(LB, index, direction))
                /\ op' = [Op("move") EXCEPT !.index = Idx(index), !.dir = direction]
        /\ UNCHANGED <<ref, clip, cbvars, tip, entry, GLOBAL>>

NextIndex == InsertAt \/ DeleteAt \/ MoveAt

SpecIndex == Init /\ [][NextIndex]_vars

----------------------------------------------------------------------------
(* Operations on the selection *)
GuardValues == {b, x}

\* delete_selected, once the confirmation its decorator asks for is given
DeleteSelected ==
    /\ count(LB) <= MaxLen
    /\ IF sel # {}
       THEN SetLB(delete(LB, curselection(LB))) /\ op' = Op("delete_selected")
       ELSE UNCHANGED <<items, rows, sel>> /\ op' = [Op("delete_selected") EXCEPT !.dialog = TRUE]
    /\ ref' = RefDelete(ref, sel)
    /\ UNCHANGED <<clip, cbvars, tip, entry, GLOBAL>>

\* move_selection(direction): exactly one selected row is moved, anything
\* else shows "Select ONE item!"
MoveSelection ==
    \E direction \in {-1, 1} :
        /\ count(LB) <= MaxLen
        /\ IF Cardinality(sel) = 1
           THEN /\ SetLB(move(LB, curselection(LB)[1], direction))
                /\ op' = [Op("move_selection") EXCEPT !.dir = direction]
           ELSE /\ UNCHANGED <<items, rows, sel>>
                /\ op' = [Op("move_selection") EXCEPT !.dir = direction, !.dialog = TRUE]
        /\ ref' = IF Cardinality(sel) = 1 /\ (curselection(LB)[1] + direction) \in 0..(Len(ref) - 1)
                  THEN RefSwap(ref, curselection(LB)[1], curselection(LB)[1] + direction) ELSE ref
        /\ UNCHANGED <<clip, cbvars, tip, entry, GLOBAL>>

NextGuard ==
    \/ Insert(GuardValues)
    \/ Select
    \/ DeleteSelected
    \/ MoveSelection
    \/ SaveToClipboard
    \/ ComboSetValues({"c1"}, {<<a, b>>}, {})
    \/ ComboSelect({"c1"})
    \/ ComboSaveToClipboard({"c1"})

SpecGuard == Init /\ [][NextGuard]_vars

----------------------------------------------------------------------------
(* ComboEditFrame operations; the frame's combo box is "c1" *)
Jobj == ObjectInfo(<<"J">>, <<b>>)
Kone == ObjectInfo(<<"K">>, <<a>>)
EditValues == {a, Jobj, Kone}

\* ComboEditFrame.set_values(values) with a list nobody else holds
FrameSetValues(Lists) ==
    \E list \in Lists :
        LET r == frame_set_values([heap EXCEPT !["c1"] = list], combo["c1"], "c1")
        IN  /\ SetCombo("c1", r)
            /\ op' = [Op("frame_set_values") EXCEPT !.w = "c1", !.raised = r.raised]
            /\ UNCHANGED <<tip, entry, GLOBAL, items, rows, sel, ref, clip>>

\* the Edit button
Edit ==
    LET r == edit(heap, combo["c1"], "c1")
    IN  /\ combo' = [combo EXCEPT !["c1"].idx = TkComboboxCurrent(combo["c1"])]
        /\ op' = [Op("_edit") EXCEPT !.w = "c1", !.raised = r.raised, !.dialog = r.dialog,
                                      !.call = r.call]
        /\ UNCHANGED <<tip, entry, GLOBAL, items, rows, sel, ref, clip, heap>>

NextEdit ==
    \/ FrameSetValues(SeqsUpTo(EditValues, MaxLen))
    \/ ComboSetValues({"c1"}, {<<a, Jobj>>, <<Jobj, Kone, a>>}, {})
    \/ ComboSelect({"c1"})
    \/ ComboDelete({"c1"})
    \/ Edit

SpecEdit == Init /\ [][NextEdit]_vars

----------------------------------------------------------------------------
(* A list box and a combo box copying to and pasting from the one clipboard *)
NextCopy ==
    \/ Insert({a})
    \/ Select
    \/ SaveToClipboard
    \/ PasteFromClipboard
    \/ ComboSaveToClipboard({"c1"})
    \/ ComboPaste({"c1"})

SpecCopy == Init /\ [][NextCopy]_vars

----------------------------------------------------------------------------
(* Deleting the tail of the list box *)
DeleteEnd ==
    \E first \in 0..count(LB) :
        LET r == delete_end(LB, first)
        IN  /\ SetLB(r.lb)
            /\ op' = [Op("delete_end") EXCEPT !.index = Idx(first), !.raised = r.raised]
            /\ ref' = IF r.raised THEN ref ELSE SubSeq(ref, 1, first)
            /\ UNCHANGED <<clip, cbvars, tip, entry, GLOBAL>>

NextEnd == Insert(GuardValues) \/ Select \/ DeleteEnd

SpecEnd == Init /\ [][NextEnd]_vars

----------------------------------------------------------------------------
(* Hinted entry events *)
Hints == {<<>>, <<"h">>}
EntryStates == {"normal", "readonly"}
EntryTexts == {<<>>, <<"u">>, <<"h">>, <<"u", "v">>}

InitEntry ==
    /\ InitWidgets
    /\ tip = BaseToolTip(DefaultTimeout)
    /\ \E hint \in Hints : \E state \in EntryStates : entry = InitEntryWith(hint, state)

EntryFrame == UNCHANGED <<items, rows, sel, clip, ref, heap, combo, tip, GLOBAL>>

\* insert(index, string) called on the entry
EntryInsert ==
    \E string \in EntryTexts : \E index \in {Idx(0), Idx(1), END} :
        /\ Len(entry.w.text) + Len(string) <= MaxText + 1
        /\ entry' = [w |-> hinted_insert(entry.w, index, string),
                     user |-> IF entry.w.foreground = "gray" THEN string
                              ELSE TtkEntryInsert([entry.w EXCEPT !.text = entry.user,
                                                                  !.state = "normal"],
                                                  index, string).text]
        /\ op' = [Op("insert") EXCEPT !.w = "entry", !.index = index]
        /\ EntryFrame

\* <FocusIn>
FocusIn ==
    /\ entry' = [entry EXCEPT !.w = focus_in(entry.w)]
    /\ op' = [Op("_focus_in") EXCEPT !.w = "entry"]
    /\ EntryFrame

\* <FocusOut>
FocusOut ==
    /\ entry' = [entry EXCEPT !.w = focus_out(entry.w)]
    /\ op' = [Op("_focus_out") EXCEPT !.w = "entry"]
    /\ EntryFrame

NextEntry == EntryInsert \/ FocusIn \/ FocusOut

SpecEntry == InitEntry /\ [][NextEntry]_vars

----------------------------------------------------------------------------
(* Backend selection calls *)
BackendNames == {"tkinter", "customtkinter", "ttkbootstrap", "Tkinter", ""}

SetBackend ==
    \E backend \in BackendNames :
        LET r == set_backend(GLOBAL, backend)
        IN  /\ GLOBAL.backend.id < MaxBackends
            /\ GLOBAL' = r.g
            /\ op' = [Op("set_backend") EXCEPT !.w = "backend", !.arg = backend,
                                                !.raised = r.raised]
            /\ UNCHANGED <<items, rows, sel, clip, ref, heap, combo, tip, entry>>

GetBackend ==
    /\ op' = [Op("get_backend") EXCEPT !.w = "backend", !.arg = get_backend(GLOBAL).class_]
    /\ UNCHANGED <<items, rows, sel, clip, ref, heap, combo, tip, entry, GLOBAL>>

NextBackend == SetBackend \/ GetBackend

SpecBackend == Init /\ [][NextBackend]_vars

----------------------------------------------------------------------------
(* Properties *)

\* C1: the list box displays exactly one row per stored item, and row i is
\* the text of stored item i, after any insert, delete, move and clear.
C1_RowsMirrorItems ==
    /\ Len(rows) = count(LB)
    /\ \A i \in 1..Len(items) : rows[i] = TclText(items[i])

C1_Witness ==
    /\ op.name = "move"
    /\ Len(items) = MaxLen
    /\ \E i \in 1..Len(items) : items[i] = ab
    /\ \E i, j \in 1..Len(items) : rows[i] # rows[j]

\* C2: get() returns what the same inserts, deletes and clears leave in a
\* plain list, and count() is its length.
C2_GetMatchesReference ==
    /\ get(LB) = ref
    /\ count(LB) = Len(ref)

C2_Witness ==
    /\ op.name = "delete"
    /\ Len(op.indexes) >= 2
    /\ Len(ref) >= 1
    /\ get(LB) = ref

\* delete(i) for each index of S alone, the highest first
RECURSIVE DeleteDescending(_, _)
DeleteDescending(lb, S) ==
    IF S = {} THEN lb
    ELSE LET m == CHOOSE z \in S : \A w \in S : z >= w
         IN  DeleteDescending(delete(lb, <<m>>), S \ {m})

\* C3: delete(*indexes) leaves the stored items and the rows that deleting
\* each distinct index alone, highest first, leaves.
C3_DeleteAsDescending ==
    [][op'.name = "delete" =>
         LET one_by_one == DeleteDescending(LB, Range(op'.indexes))
         IN  items' = one_by_one.items /\ rows' = one_by_one.rows]_vars

\* deleting {1,3,4,7} from ten entries keeps the other six in order
C3_Witness ==
    /\ op.name = "delete"
    /\ op.indexes = <<7, 3, 1, 4>>
    /\ items = <<Ten[1], Ten[3], Ten[6], Ten[7], Ten[9], Ten[10]>>
    /\ Len(rows) = 6

\* C8: move(0, -1) and move(count() - 1, +1) change nothing.
C8_BoundaryMoveIsNoOp ==
    [][(/\ op'.name = "move"
        /\ Len(items) >= 1
        /\ \/ op'.index.i = 0 /\ op'.dir = -1
           \/ op'.index.i = Len(items) - 1 /\ op'.dir = 1)
       => UNCHANGED <<items, rows, sel>>]_vars

C8_Witness ==
    /\ op.name = "move"
    /\ op.index.i = 0
    /\ op.dir = -1
    /\ Len(items) = MaxLen
    /\ 0 \in sel

\* C9: a move that is not at a boundary swaps the entry with its neighbour,
\* keeps everything else and leaves the moved entry selected.
C9_MoveSwaps ==
    [][(/\ op'.name = "move"
        /\ Len(items) >= 2
        /\ ~(op'.index.i = 0 /\ op'.dir = -1)
        /\ ~(op'.index.i = Len(items) - 1 /\ op'.dir = 1))
       => /\ items' = RefSwap(items, op'.index.i, op'.index.i + op'.dir)
          /\ rows' = RefSwap(rows, op'.index.i, op'.index.i + op'.dir)
          /\ Len(items') = Len(items)
          /\ (op'.index.i + op'.dir) \in sel']_vars

\* ['b','x','y'] -> move(0, 1) -> ['x','b','y']
C9_Witness ==
    /\ op.name = "move"
    /\ op.index.i = 0
    /\ op.dir = 1
    /\ items = <<x, b, y>>
    /\ 1 \in sel

\* C4: copying a non-empty selection and pasting it right away appends
\* exactly the selected values, in order, and nothing else.
C4_CopyPasteAppendsSelection ==
    [][(/\ op.name = "save" /\ op.w = "listbox" /\ sel # {}
        /\ op'.name = "paste" /\ op'.w = "listbox")
       => items' = items \o SelectedValues(LB)]_vars

\* C5: current() of a combo box is -1 or an index into its stored items.
C5_CurrentInRange ==
    \A w \in Combos :
        \/ TkComboboxCurrent(combo[w]) = -1
        \/ /\ 0 <= TkComboboxCurrent(combo[w])
           /\ TkComboboxCurrent(combo[w]) < combo_count(heap, combo[w])

\* C6: an insert, delete or paste on one combo box changes neither what
\* get_values() of another returns nor the caller's list.
C6_NoSharedBacking ==
    [][\A w \in Combos :
         (op'.w = w /\ op'.name \in {"insert", "delete", "paste"})
         => /\ \A v \in Combos \ {w} : get_values(heap', combo'[v]) = get_values(heap, combo[v])
            /\ heap'["L"] = heap["L"]]_vars

\* clipboard text that base64 / pickle / convert_from_dict does not decode
Undecodable(text) == text # NoClip /\ ~(Decodes(text) /\ Resolves(text.e[1]))

C7_HiddenAfterLeave == tip.left => ~tip.visible

\* C11: pasting a payload whose class convert_from_dict cannot resolve raises
\* to the caller and stores nothing in the list box or the combo box.
C11_UnresolvedPasteAborts ==
    [][(op'.name = "paste" /\ Decodes(clip) /\ ~Resolves(clip.e[1]))
       => op'.raised /\ UNCHANGED <<items, rows, heap>>]_vars

\* whether a numeric index names an entry of the list box
EntryIndex(lb, i) == 0 <= i /\ i < count(lb)

\* C12: insert with a numeric index outside 0..count() raises and changes
\* neither the stored items nor the rows.
C12_InsertOutOfRangeRaises ==
    [][(/\ op'.name = "insert" /\ op'.w = "listbox" /\ ~op'.index.str
        /\ (op'.index.i < 0 \/ op'.index.i > count(LB)))
       => op'.raised /\ UNCHANGED <<items, rows>>]_vars

\* C13: delete and move with an index outside 0..count()-1 raise, and so
\* change neither the stored items nor the rows.
C13_DeleteMoveOutOfRangeRaise ==
    [][(\/ /\ op'.name = "delete" /\ op'.w = "listbox"
           /\ \E j \in 1..Len(op'.indexes) : ~EntryIndex(LB, op'.indexes[j])
        \/ /\ op'.name = "move"
           /\ ~EntryIndex(LB, op'.index.i))
       => op'.raised /\ UNCHANGED <<items, rows>>]_vars

\* C14: delete_selected and save_to_clipboard with no row selected,
\* move_selection without exactly one selected row, and the combo box's
\* save_to_clipboard with current() = -1 show a dialog, raise nothing and
\* leave the stored items, the rows and the clipboard as they were.
C14_GuardAbortsUnchanged ==
    [][(\/ /\ op'.name \in {"delete_selected", "save"} /\ op'.w = "listbox"
           /\ sel = {}
        \/ /\ op'.name = "move_selection"
           /\ Cardinality(sel) # 1
        \/ /\ op'.name = "save" /\ op'.w \in Combos
           /\ TkComboboxCurrent(combo[op'.w]) = -1)
       => op'.dialog /\ ~op'.raised /\ UNCHANGED <<items, rows, clip, heap>>]_vars

Selection(w) ==
    IF w = "listbox"
    THEN IF Cardinality(sel) > 1 THEN List(SelectedValues(LB)) ELSE SelectedValues(LB)[1]
    ELSE get_values(heap, combo[w])[TkComboboxCurrent(combo[w]) + 1]

\* C16: after a copy with something selected, in whatever order the widgets
\* copy and paste, the clipboard holds exactly the encoding of that copy's
\* selection and nothing of its earlier content.
C16_ClipboardIsLastCopy ==
    [][(/\ op'.name = "save" /\ ~op'.dialog /\ ~op'.raised
        /\ op'.w \in Combos => TkComboboxCurrent(combo[op'.w]) >= 0)
       => clip' = Encode(convert_to_dict(Selection(op'.w)))]_vars

\* C17: after set_values with a non-empty list, on the combo box itself or
\* through ComboEditFrame, current() is 0 and get() returns the first value.
C17_SetValuesSelectsFirst ==
    [][(/\ op'.name \in {"set_values", "frame_set_values"}
        /\ combo_count(heap', combo'[op'.w]) >= 1)
       => /\ TkComboboxCurrent(combo'[op'.w]) = 0
          /\ ~combo_get(heap', combo'[op'.w]).raised
          /\ combo_get(heap', combo'[op'.w]).value = get_values(heap', combo'[op'.w])[1]]_vars

\* one call of get_backend or set_backend does what its name says
BackendStep ==
    /\ (op'.name = "get_backend") =>
          (op'.arg = IF GLOBAL.last = "" THEN "BackendTkinter" ELSE BACKEND_MAP[GLOBAL.last])
    /\ (op'.name = "set_backend" /\ op'.arg \in DOMAIN BACKEND_MAP) =>
          (/\ ~op'.raised
           /\ get_backend(GLOBAL').class_ = BACKEND_MAP[op'.arg]
           /\ get_backend(GLOBAL') # get_backend(GLOBAL))
    /\ (op'.name = "set_backend" /\ op'.arg \notin DOMAIN BACKEND_MAP) =>
          (op'.raised /\ get_backend(GLOBAL') = get_backend(GLOBAL))

\* C18: get_backend() returns a BackendTkinter object until set_backend has
\* returned once, and from then on an object of the class BACKEND_MAP gives
\* for the name of the last call that returned; set_backend with a name that
\* is not in BACKEND_MAP raises and leaves the backend object in place.
C18_BackendFollowsLastSet ==
    get_backend(GLOBAL).class_ = "BackendTkinter" /\ [][BackendStep]_vars

C18_Witness ==
    /\ op.name = "get_backend"
    /\ op.arg = "BackendCustomTkinter"
    /\ GLOBAL.last = "customtkinter"
    /\ get_backend(GLOBAL).id >= 3

\* str(x)[:200]
Shown(v) == SubSeq(PyStr(v), 1, Min(Len(PyStr(v)), StrCap))

\* C19: a combo box displays one value per stored item, and the i-th one is
\* the first 200 characters of str() of stored item i.
C19_ValuesMirrorItems ==
    \A w \in Combos :
        /\ Len(combo[w].values) = combo_count(heap, combo[w])
        /\ \A i \in 1..Len(combo[w].values) :
               i <= combo_count(heap, combo[w]) =>
                   combo[w].values[i] = Shown(get_values(heap, combo[w])[i])

\* C20: a paste into a combo box appends the decoded value only when no
\* equal value is stored, then selects the first stored value equal to it,
\* which get() returns; the same paste again leaves the stored items alone.
C20_PasteSelectsOnce ==
    [][(op'.name = "paste" /\ op'.w \in Combos /\ clip # NoClip) =>
         LET old == get_values(heap, combo[op'.w])
             new == get_values(heap', combo'[op'.w])
             value == PastedValue(clip)
         IN  /\ new = IF value \in Range(old) THEN old ELSE Append(old, value)
             /\ ~op'.raised
             /\ TkComboboxCurrent(combo'[op'.w]) = ListIndex(new, value)
             /\ combo_get(heap', combo'[op'.w]) = [raised |-> FALSE, value |-> value]
             /\ (op.name = "paste" /\ op.w = op'.w) => new = old]_vars

\* C21: delete(first, "end") with 0 <= first <= count() does not raise and
\* keeps exactly the first `first` stored items and rows.
C21_DeleteEndKeepsHead ==
    [][(op'.name = "delete_end" /\ 0 <= op'.index.i /\ op'.index.i <= count(LB))
       => /\ ~op'.raised
          /\ items' = SubSeq(items, 1, op'.index.i)
          /\ rows' = SubSeq(rows, 1, op'.index.i)]_vars

\* C22: the hint of a HintedEntry shows (gray) only while the user text is
\* empty, get() returns '' while it shows and the user text otherwise, and
\* insert leaves the state option as it found it.
C22_HintNeverReadAsText ==
    /\ entry.w.foreground = "gray" => entry.user = <<>>
    /\ hinted_get(entry.w) = IF entry.w.foreground = "gray" THEN <<>> ELSE entry.user
    /\ entry.w.state \in EntryStates

====
